---- MODULE Spec2Model ----
(***************************************************************************)
(* Model of src/App.tsx: the single React component App of Pixey Dust.     *)
(* The React state variables are the model's variables; every event        *)
(* handler, promise continuation, timer callback and BLE callback is one   *)
(* action.  An async function is cut at each await: the code between two   *)
(* awaits runs to completion on the single JavaScript thread, so it is one *)
(* atomic step, and other callbacks may run between two steps.             *)
(* The state permissionsGranted is written once by the mount effect and    *)
(* read nowhere; it is left out.                                           *)
(***************************************************************************)
EXTENDS Integers, Sequences, FiniteSets, TLC

\* ------------------------------------------------------------------ bounds
\* Invocations of startBLEScan that are pending at once (suspended at an
\* await, or with their setTimeout callback outstanding).  The specifications
\* that look for races allow one more.
MaxScanCalls == 1
\* Invocations of connectToDevice that are suspended at an await at once.  The
\* specifications that look for races allow one more.
MaxConnCalls == 1
\* Largest amount of time that passes in one step of the clock.
TickMs == 5000

\* ------------------------------------------------------- program constants
\* setTimeout(..., 10000)
ScanWindowMs == 10000
\* Platform.Version >= 31
Android12 == 31

\* ---------------------------------------------------------- JavaScript values
Null == "<null>"

\* JavaScript truthiness of a string-or-null value (device.name, value).
TruthyStr(s) == s # Null /\ s # ""

\* JavaScript truthiness of a number-or-undefined value; Undefined is -1.
Undefined == 0 - 1
TruthyNum(n) == n # Undefined /\ n # 0

\* The empty object {}.
EmptyObj == [f \in {} |-> 0]

\* obj.field for an object modelled as a function from field names to numbers.
Field(obj, f) == IF f \in DOMAIN obj THEN obj[f] ELSE Undefined

\* -------------------------------------------------------------- environment
\* The peripherals in radio range: identifier, advertised name, GATT table.
\* A GATT table is a sequence of services, each a sequence of
\* characteristics, each TRUE when it is notifiable.
Peripherals == {"AA:01", "BB:02", "CC:03", "DD:04"}

NameOf(id) ==
  CASE id = "AA:01" -> "ESP32"
    [] id = "BB:02" -> "Pixey"
    [] id = "CC:03" -> ""
    [] OTHER -> Null

GattOf(id) ==
  CASE id = "AA:01" -> << <<TRUE, FALSE>>, <<TRUE>> >>
    [] id = "BB:02" -> << <<FALSE>> >>
    [] OTHER -> << >>

\* The states of the adapter (State of react-native-ble-plx).
BleStates ==
  {"Unknown", "Resetting", "Unsupported", "Unauthorized", "PoweredOff", "PoweredOn"}

\* Platform.OS and Platform.Version.
Platforms ==
  { [os |-> "ios", version |-> 0],
    [os |-> "android", version |-> Android12 - 1],
    [os |-> "android", version |-> Android12] }

FINE == "ACCESS_FINE_LOCATION"
COARSE == "ACCESS_COARSE_LOCATION"
BT_SCAN == "BLUETOOTH_SCAN"
BT_CONNECT == "BLUETOOTH_CONNECT"
AllPermissions == {FINE, COARSE, BT_SCAN, BT_CONNECT}

\* The runtime permissions the platform knows.
OsPermissions(p) ==
  IF p.os # "android" THEN {}
  ELSE IF p.version >= Android12 THEN AllPermissions
  ELSE {FINE, COARSE}

GRANTED == "granted"
RequestResults == {GRANTED, "denied", "never_ask_again"}

\* error.message of the failures the BLE library reports.
ScanErrorMessage == "BluetoothLE is powered off"
ScanFailedMessage == "BleManager was destroyed"
ConnectErrorMessage == "Device disconnected"

\* ------------------------------------------------------------ JSON.parse
\* A notification value is a string; the model writes it as its sequence of
\* JSON tokens.  A token is a record [k, s, n]: k the kind, s the text of a
\* string or literal, n the value of a number.
Tok(k, s, n) == [k |-> k, s |-> s, n |-> n]
LBrace == Tok("{", "", 0)
RBrace == Tok("}", "", 0)
Colon == Tok(":", "", 0)
Comma == Tok(",", "", 0)
Str(s) == Tok("str", s, 0)
Num(n) == Tok("num", "", n)
Lit(s) == Tok("lit", s, 0)
Raw(s) == Tok("raw", s, 0)

\* A parsed value: kind is "object", "number", "string", "null" or "true";
\* obj holds the members of an object.
SyntaxError == [ok |-> FALSE, kind |-> "", obj |-> EmptyObj]
Value(kind, obj) == [ok |-> TRUE, kind |-> kind, obj |-> obj]

\* obj with member key set to n (a later duplicate key wins, as in JSON.parse).
SetMember(obj, key, n) ==
  [f \in DOMAIN obj \cup {key} |-> IF f = key THEN n ELSE obj[f]]

\* The members  "key" : number (, "key" : number)*  of an object.
RECURSIVE ParseMembers(_, _)
ParseMembers(ts, acc) ==
  IF Len(ts) < 3 THEN SyntaxError
  ELSE IF ~(ts[1].k = "str" /\ ts[2] = Colon /\ ts[3].k = "num") THEN SyntaxError
  ELSE IF Len(ts) = 3 THEN Value("object", SetMember(acc, ts[1].s, ts[3].n))
  ELSE IF ts[4] = Comma
    THEN ParseMembers(SubSeq(ts, 5, Len(ts)), SetMember(acc, ts[1].s, ts[3].n))
  ELSE SyntaxError

\* JSON.parse(text): a value, or SyntaxError when it throws.
JSONParse(ts) ==
  IF Len(ts) = 0 THEN SyntaxError
  ELSE IF Len(ts) = 1 THEN
    CASE ts[1].k = "num" -> Value("number", EmptyObj)
      [] ts[1].k = "str" -> Value("string", EmptyObj)
      [] ts[1].k = "lit" /\ ts[1].s = "null" -> Value("null", EmptyObj)
      [] ts[1].k = "lit" /\ ts[1].s = "true" -> Value("true", EmptyObj)
      [] OTHER -> SyntaxError
  ELSE IF ts[1] = LBrace /\ ts[Len(ts)] = RBrace THEN
    IF Len(ts) = 2 THEN Value("object", EmptyObj)
    ELSE ParseMembers(SubSeq(ts, 2, Len(ts) - 1), EmptyObj)
  ELSE SyntaxError

\* The notification values the connected peripheral may send.
Member(key, n) == <<Str(key), Colon, Num(n)>>
Object1(k1, n1) == <<LBrace>> \o Member(k1, n1) \o <<RBrace>>
Object2(k1, n1, k2, n2) ==
  <<LBrace>> \o Member(k1, n1) \o <<Comma>> \o Member(k2, n2) \o <<RBrace>>

NotifyValues ==
  { Object2("temperature", 21, "humidity", 40),
    Object1("temperature", 21),
    Object1("humidity", 40),
    Object1("temperature", 0),
    Object2("temperature", 0, "humidity", 0),
    Object2("temperature", 0, "humidity", 40),
    Object1("battery", 3),
    <<LBrace, RBrace>>,
    <<Lit("null")>>,
    <<Num(21)>>,
    <<Raw("21.5C 40%")>>,
    <<LBrace>> \o Member("temperature", 21),
    << >> }

\* ------------------------------------------------------------------- state
VARIABLES
  \* React state of App (useState)
  sensorData, connected, statusMsg, bluetoothState, scanning, devices,
  selectedDevice,
  \* operating system and BLE stack
  platform,     \* Platform.OS and Platform.Version
  granted,      \* the permissions the OS has granted to the application
  nativeScan,   \* TRUE while a scan session of the BLE stack delivers results
  sessAge,      \* milliseconds since the scan session was started
  sessErr,      \* TRUE when the scan session has reported a scan error
  open,         \* the peripherals with an open BLE connection
  subs,         \* the monitored characteristics: <<device, service, index>>
  \* suspended async functions
  scanCalls,    \* invocations of startBLEScan
  connCalls,    \* invocations of connectToDevice
  discCall,     \* the invocation of disconnectDevice
  readCall,     \* the invocation of readSensorData
  \* history: the BLE callback of the last step
  last

reactVars ==
  <<sensorData, connected, statusMsg, bluetoothState, scanning, devices, selectedDevice>>
envVars == <<platform, granted, nativeScan, sessAge, sessErr, open, subs>>
callVars == <<scanCalls, connCalls, discCall, readCall>>
vars == <<reactVars, envVars, callVars, last>>

ScanSlots == 1..MaxScanCalls
RescanSlots == 1..(MaxScanCalls + 1)
ConnSlots == 1..MaxConnCalls
RaceSlots == 1..(MaxConnCalls + 1)

\* An invocation of startBLEScan: pc is where it is suspended ("check",
\* "request", or "timer" once only its setTimeout callback is left), len is
\* devices.length of the render whose closure was invoked, rem the time left
\* on its timer, own whether the scan session it started is the one running.
IdleScanCall == [pc |-> "idle", len |-> 0, rem |-> 0, own |-> FALSE]
IdleConnCall == [pc |-> "idle", dev |-> Null, svc |-> 0, own |-> FALSE]
IdleCall == [pc |-> "idle", dev |-> Null]

\* What the last step was, when it was a callback of the BLE stack or a
\* failure: a scan result (dev the device), a notification (dev the kind,
\* value the text, pre the snapshot it found) or the failure of an operation
\* (op names it).  NoStep after any other step.
Step(op, dev) == [op |-> op, dev |-> dev, value |-> << >>, pre |-> EmptyObj]
NoStep == Step("", Null)

Init ==
  /\ sensorData = EmptyObj
  /\ connected = FALSE
  /\ statusMsg = "Bluetooth not ready"
  /\ bluetoothState = "Unknown"
  /\ scanning = FALSE
  /\ devices = << >>
  /\ selectedDevice = Null
  /\ platform \in Platforms
  /\ granted \in SUBSET OsPermissions(platform)
  /\ nativeScan = FALSE
  /\ sessAge = 0
  /\ sessErr = FALSE
  /\ open = {}
  /\ subs = {}
  /\ scanCalls = [c \in RescanSlots |-> IdleScanCall]
  /\ connCalls = [c \in RaceSlots |-> IdleConnCall]
  /\ discCall = IdleCall
  /\ readCall = IdleCall
  /\ last = NoStep

\* The lowest slot that holds no invocation.
FreeSlot(calls, c) ==
  /\ calls[c].pc = "idle"
  /\ \A d \in DOMAIN calls : d < c => calls[d].pc # "idle"

\* -------------------------------------------------- Bluetooth state observer
\* (mutant) every state sets a string: the other states set the first one.
StateMessageAlways(state, prev) ==
  CASE state = "PoweredOn" -> "Bluetooth is ready - Scan for devices"
    [] state = "PoweredOff" -> "Bluetooth is turned off"
    [] state = "Unauthorized" -> "Bluetooth permission denied"
    [] state = "Unsupported" -> "Bluetooth not supported on this device"
    [] OTHER -> "Bluetooth not ready"

\* The status string of the onStateChange callback; prev when no branch sets one.
StateMessage(state, prev) ==
  CASE state = "PoweredOn" -> "Bluetooth is ready - Scan for devices"
    [] state = "PoweredOff" -> "Bluetooth is turned off"
    [] state = "Unauthorized" -> "Bluetooth permission denied"
    [] state = "Unsupported" -> "Bluetooth not supported on this device"
    [] OTHER -> prev

\* The connections to the peripherals ids have closed: the services and
\* characteristics discovered on them are gone with them, and the calls an
\* invocation of connectToDevice awaits on them can only reject.
Closed(ids) ==
  [c \in DOMAIN connCalls |->
     IF connCalls[c].dev \in ids THEN [connCalls[c] EXCEPT !.own = FALSE]
     ELSE connCalls[c]]

\* bleManager.onStateChange callback.  An adapter that is not powered on
\* holds no connection: the BLE stack drops them and their subscriptions.
BtStateChange(state) ==
  /\ state # bluetoothState
  /\ bluetoothState' = state
  /\ statusMsg' = StateMessage(state, statusMsg)
  /\ IF state = "PoweredOff"
       THEN connected' = FALSE /\ selectedDevice' = Null
       ELSE UNCHANGED <<connected, selectedDevice>>
  /\ IF state # "PoweredOn"
       THEN open' = {} /\ subs' = {} /\ connCalls' = Closed(open)
       ELSE UNCHANGED <<open, subs, connCalls>>
  /\ last' = NoStep
  /\ UNCHANGED <<sensorData, scanning, devices, platform, granted, nativeScan,
                 sessAge, sessErr, scanCalls, discCall, readCall>>

\* ---------------------------------------------------------- permission gate
\* The permissions requestPermissions asks for and checkPermissions checks.
RequiredPermissions(p) ==
  IF p.version >= Android12 THEN {FINE, COARSE, BT_SCAN, BT_CONNECT}
  ELSE {FINE, COARSE}

\* checkPermissions(): throws is TRUE when PermissionsAndroid.check rejects.
CheckPermissions(p, have, throws) ==
  IF p.os = "android"
    THEN IF throws THEN FALSE
         ELSE /\ FINE \in have
              /\ COARSE \in have
              /\ (p.version >= Android12 => BT_SCAN \in have)
              /\ (p.version >= Android12 => BT_CONNECT \in have)
    ELSE TRUE

\* (mutant) some instead of every.
SomeGranted(result) == \E perm \in DOMAIN result : result[perm] = GRANTED

\* Object.values(granted).every(permission => permission === GRANTED)
AllGranted(result) == \A perm \in DOMAIN result : result[perm] = GRANTED

\* requestPermissions(): result is what requestMultiple resolves to.
RequestPermissions(p, result, throws) ==
  IF p.os = "android"
    THEN IF throws THEN FALSE ELSE AllGranted(result)
    ELSE TRUE

\* What PermissionsAndroid.requestMultiple may resolve to: a permission the
\* application already holds is reported granted.
RequestOutcomes(p, have) ==
  { r \in [RequiredPermissions(p) -> RequestResults] :
      \A perm \in DOMAIN r : perm \in have => r[perm] = GRANTED }

\* ------------------------------------------------------------------ scanner
\* (mutant) the list is not cleared.
KeptDevices(prev) == prev

\* setDevices([]) at the start of a scan.
NewScanDevices(prev) == << >>

\* The records of earlier scan sessions are no records of the current one.
MarkStale(devs) == [i \in DOMAIN devs |-> [devs[i] EXCEPT !.cur = FALSE]]

\* (mutant) the update appends without looking for the identifier.
AddDeviceNoCheck(prevDevices, device) == Append(prevDevices, device)

\* The functional update of the scan callback.
AddDevice(prevDevices, device) ==
  IF \E i \in DOMAIN prevDevices : prevDevices[i].id = device.id
    THEN prevDevices
    ELSE Append(prevDevices, device)

\* (mutant) the filter tests the device alone.
NamedOrNot(id) == id # Null

\* The scan callback's filter: device && device.name
Named(id) == id # Null /\ TruthyStr(NameOf(id))

\* The Scan button is enabled.
ScanEnabled == ~(scanning \/ bluetoothState # "PoweredOn")

\* startBLEScan from setScanning(true) to its end; len is devices.length of
\* its closure.  throws is TRUE when bleManager.startDeviceScan throws.  A
\* started scan replaces the stack's scan session, and the timers of earlier
\* invocations are no longer the timer of the running session.
BeginScan(c, len, throws) ==
  /\ devices' = MarkStale(NewScanDevices(devices))
  /\ last' = IF throws THEN Step("ScanFailed", Null) ELSE NoStep
  /\ IF throws
       THEN /\ scanning' = FALSE
            /\ statusMsg' = "Scan failed: " \o ScanFailedMessage
            /\ scanCalls' = [scanCalls EXCEPT ![c] = IdleScanCall]
            /\ UNCHANGED <<nativeScan, sessAge, sessErr>>
       ELSE /\ scanning' = TRUE
            /\ statusMsg' = "Scanning for BLE devices..."
            /\ nativeScan' = TRUE
            /\ sessAge' = 0
            /\ sessErr' = FALSE
            /\ scanCalls' =
                 [d \in DOMAIN scanCalls |->
                    IF d = c
                      THEN [pc |-> "timer", len |-> len,
                            rem |-> ScanWindowMs, own |-> TRUE]
                      ELSE [scanCalls[d] EXCEPT !.own = FALSE]]

\* Press of the Scan button.  The button is disabled unless the adapter is
\* powered on, so the function's own test of bluetoothState passes and its
\* Alert branch is not taken.  On Android checkPermissions() awaits the
\* operating system and startBLEScan is suspended there; on another platform
\* it returns true without awaiting anything, the await resumes in the same
\* turn of the event loop, and the press runs startBLEScan to its end.
ScanPress(c, scanThrows) ==
  /\ ScanEnabled
  /\ FreeSlot(scanCalls, c)
  /\ bluetoothState = "PoweredOn"
  /\ IF platform.os = "android"
       THEN /\ scanCalls' = [scanCalls EXCEPT ![c] =
                               [pc |-> "check", len |-> Len(devices), rem |-> 0,
                                own |-> FALSE]]
            /\ last' = NoStep
            /\ UNCHANGED <<statusMsg, scanning, devices, nativeScan, sessAge, sessErr>>
       ELSE BeginScan(c, Len(devices), scanThrows)
  /\ UNCHANGED <<sensorData, connected, bluetoothState, selectedDevice, platform,
                 granted, open, subs, connCalls, discCall, readCall>>

\* await checkPermissions() resolves.
CheckResolved(c, checkThrows, scanThrows) ==
  /\ scanCalls[c].pc = "check"
  /\ IF CheckPermissions(platform, granted, checkThrows)
       THEN BeginScan(c, scanCalls[c].len, scanThrows)
       ELSE /\ scanCalls' = [scanCalls EXCEPT ![c].pc = "request"]
            /\ last' = NoStep
            /\ UNCHANGED <<statusMsg, scanning, devices, nativeScan, sessAge, sessErr>>
  /\ UNCHANGED <<sensorData, connected, bluetoothState, selectedDevice, platform,
                 granted, open, subs, connCalls, discCall, readCall>>

\* await requestPermissions() resolves: the OS keeps what the user granted.
RequestResolved(c, result, requestThrows, scanThrows) ==
  /\ scanCalls[c].pc = "request"
  /\ granted' = IF platform.os = "android" /\ ~requestThrows
                  THEN granted \cup {perm \in DOMAIN result : result[perm] = GRANTED}
                  ELSE granted
  /\ IF RequestPermissions(platform, result, requestThrows)
       THEN BeginScan(c, scanCalls[c].len, scanThrows)
       ELSE /\ statusMsg' = "Bluetooth permissions required"
            /\ scanCalls' = [scanCalls EXCEPT ![c] = IdleScanCall]
            /\ last' = NoStep
            /\ UNCHANGED <<scanning, devices, nativeScan, sessAge, sessErr>>
  /\ UNCHANGED <<sensorData, connected, bluetoothState, selectedDevice, platform,
                 open, subs, connCalls, discCall, readCall>>

\* Scan callback with a device (or with neither error nor device).
ScanResult(id) ==
  /\ nativeScan
  /\ ~sessErr
  /\ bluetoothState = "PoweredOn"
  /\ devices' = IF Named(id)
                  THEN AddDevice(devices, [id |-> id, name |-> NameOf(id), cur |-> TRUE])
                  ELSE devices
  /\ last' = Step("ScanResult", id)
  /\ UNCHANGED <<sensorData, connected, statusMsg, bluetoothState, scanning,
                 selectedDevice, envVars, callVars>>

\* Scan callback with an error.  The code does not call stopDeviceScan; the
\* stack's session delivers nothing after its error.
ScanError ==
  /\ nativeScan
  /\ ~sessErr
  /\ statusMsg' = "Scan error: " \o ScanErrorMessage
  /\ scanning' = FALSE
  /\ sessErr' = TRUE
  /\ last' = Step("ScanError", Null)
  /\ UNCHANGED <<sensorData, connected, bluetoothState, devices, selectedDevice,
                 platform, granted, nativeScan, sessAge, open, subs, callVars>>

\* The status string of the setTimeout callback; len is devices.length of the
\* closure, the value devices had in the render whose handler was invoked.
ScanCompletedMessage(len) == "Scan completed. Found " \o ToString(len) \o " devices"

\* (mutant) the timer callback stops the scan and leaves the scanning flag.
ScanTimeoutKeepsFlag(c) ==
  /\ scanCalls[c].pc = "timer"
  /\ scanCalls[c].rem = 0
  /\ nativeScan' = FALSE
  /\ sessAge' = 0
  /\ sessErr' = FALSE
  /\ statusMsg' = ScanCompletedMessage(scanCalls[c].len)
  /\ scanCalls' = [scanCalls EXCEPT ![c] = IdleScanCall]
  /\ last' = NoStep
  /\ UNCHANGED <<sensorData, connected, bluetoothState, scanning, devices,
                 selectedDevice, platform, granted, open, subs, connCalls, discCall,
                 readCall>>

\* The setTimeout callback of invocation c, 10 seconds after it was set.
ScanTimeout(c) ==
  /\ scanCalls[c].pc = "timer"
  /\ scanCalls[c].rem = 0
  /\ nativeScan' = FALSE
  /\ sessAge' = 0
  /\ sessErr' = FALSE
  /\ scanning' = FALSE
  /\ statusMsg' = ScanCompletedMessage(scanCalls[c].len)
  /\ scanCalls' = [scanCalls EXCEPT ![c] = IdleScanCall]
  /\ last' = NoStep
  /\ UNCHANGED <<sensorData, connected, bluetoothState, devices, selectedDevice,
                 platform, granted, open, subs, connCalls, discCall, readCall>>

\* Time passes, up to the next timer that is due.
Pending == {c \in DOMAIN scanCalls : scanCalls[c].pc = "timer"}
Min(a, b) == IF a < b THEN a ELSE b
Elapse(delta) ==
  /\ delta > 0
  /\ \A c \in Pending : delta <= scanCalls[c].rem
  /\ scanCalls' = [c \in DOMAIN scanCalls |->
                     IF c \in Pending
                       THEN [scanCalls[c] EXCEPT !.rem = @ - delta]
                       ELSE scanCalls[c]]
  /\ sessAge' = IF nativeScan THEN Min(sessAge + delta, ScanWindowMs + 1) ELSE sessAge
  /\ last' = NoStep
  /\ UNCHANGED <<reactVars, platform, granted, nativeScan, sessErr, open, subs,
                 connCalls, discCall, readCall>>

Tick ==
  /\ Pending # {}
  /\ \E delta \in {TickMs} \cup {scanCalls[c].rem : c \in Pending} :
       /\ delta <= TickMs
       /\ Elapse(delta)

\* ---------------------------------------------------------------- connector
\* An invocation of connectToDevice(device): pc is the await it is suspended
\* at ("connect", "discover", "services", "chars"), svc the index of the
\* service of the outer loop, own whether the connection its connect() opened
\* is still open.
HasDevice(id) == \E i \in DOMAIN devices : devices[i].id = id

\* The Connect button of a listed device is enabled.
ConnectEnabled == ~connected

\* Press of Connect: connectToDevice up to await device.connect().
ConnectPress(c, id) ==
  /\ ConnectEnabled
  /\ HasDevice(id)
  /\ FreeSlot(connCalls, c)
  /\ statusMsg' = "Connecting to " \o NameOf(id) \o "..."
  /\ connCalls' = [connCalls EXCEPT ![c] = [pc |-> "connect", dev |-> id, svc |-> 0, own |-> FALSE]]
  /\ last' = NoStep
  /\ UNCHANGED <<sensorData, connected, bluetoothState, scanning, devices,
                 selectedDevice, envVars, scanCalls, discCall, readCall>>

\* await device.connect() resolves: the stack has opened a connection.  It
\* rejects for a device that is connected already.
ConnectResolved(c) ==
  /\ connCalls[c].pc = "connect"
  /\ bluetoothState = "PoweredOn"
  /\ connCalls[c].dev \notin open
  /\ open' = open \cup {connCalls[c].dev}
  /\ connCalls' = [connCalls EXCEPT ![c].pc = "discover", ![c].own = TRUE]
  /\ last' = NoStep
  /\ UNCHANGED <<reactVars, platform, granted, nativeScan, sessAge, sessErr, subs,
                 scanCalls, discCall, readCall>>

\* await discoverAllServicesAndCharacteristics() resolves.
DiscoverResolved(c) ==
  /\ connCalls[c].pc = "discover"
  /\ connCalls[c].own
  /\ selectedDevice' = connCalls[c].dev
  /\ connected' = TRUE
  /\ statusMsg' = "Connected to " \o NameOf(connCalls[c].dev) \o " - Discovering services..."
  /\ connCalls' = [connCalls EXCEPT ![c].pc = "services"]
  /\ last' = NoStep
  /\ UNCHANGED <<sensorData, bluetoothState, scanning, devices, envVars,
                 scanCalls, discCall, readCall>>

\* (mutant) every characteristic is monitored.
MonitoredAll(isNotifiable) == TRUE

\* characteristic.isNotifiable, the test of the inner loop.
Monitored(isNotifiable) == isNotifiable

\* The characteristics of service svc that the inner loop monitors.
ToMonitor(id, svc) ==
  {k \in DOMAIN GattOf(id)[svc] : Monitored(GattOf(id)[svc][k])}

\* The inner loop over the characteristics of service svc, and what follows
\* it: the next await service.characteristics(), or the end of the function.
\* monitor() returns its subscription synchronously, so each await of it
\* resumes in the same turn of the event loop and no callback runs between
\* two characteristics of a service.
Advance(c, svc) ==
  LET id == connCalls[c].dev IN
  /\ subs' = IF svc <= Len(GattOf(id))
               THEN subs \cup {<<id, svc, k>> : k \in ToMonitor(id, svc)}
               ELSE subs
  /\ IF svc < Len(GattOf(id))
       THEN /\ connCalls' = [connCalls EXCEPT ![c].svc = svc + 1]
            /\ UNCHANGED statusMsg
       ELSE /\ statusMsg' = "Connected and monitoring " \o NameOf(id)
            /\ connCalls' = [connCalls EXCEPT ![c] = IdleConnCall]
  /\ last' = NoStep

ConnFrame ==
  UNCHANGED <<sensorData, connected, bluetoothState, scanning, devices, selectedDevice,
              platform, granted, nativeScan, sessAge, sessErr, open,
              scanCalls, discCall, readCall>>

\* await discoveredDevice.services() resolves.
ServicesResolved(c) ==
  /\ connCalls[c].pc = "services"
  /\ connCalls[c].own
  /\ IF Len(GattOf(connCalls[c].dev)) = 0
       THEN Advance(c, 1)
       ELSE /\ connCalls' = [connCalls EXCEPT ![c].pc = "chars", ![c].svc = 1]
            /\ last' = NoStep
            /\ UNCHANGED <<statusMsg, subs>>
  /\ ConnFrame

\* await service.characteristics() resolves.
CharsResolved(c) ==
  /\ connCalls[c].pc = "chars"
  /\ connCalls[c].own
  /\ Advance(c, connCalls[c].svc)
  /\ ConnFrame

\* (mutant) the catch block calls device.connect() again.
ConnectFailedRetry(c) ==
  /\ connCalls[c].pc \in {"connect", "discover", "services", "chars"}
  /\ statusMsg' = "Connection failed: " \o ConnectErrorMessage
  /\ connected' = FALSE
  /\ connCalls' = [connCalls EXCEPT ![c] =
                     [pc |-> "connect", dev |-> connCalls[c].dev, svc |-> 0, own |-> FALSE]]
  /\ last' = Step("ConnectFailed", connCalls[c].dev)
  /\ UNCHANGED <<sensorData, bluetoothState, scanning, devices, selectedDevice,
                 envVars, scanCalls, discCall, readCall>>

\* One of the awaited calls rejects: the catch block.
ConnectFailed(c) ==
  /\ connCalls[c].pc \in {"connect", "discover", "services", "chars"}
  /\ statusMsg' = "Connection failed: " \o ConnectErrorMessage
  /\ connected' = FALSE
  /\ connCalls' = [connCalls EXCEPT ![c] = IdleConnCall]
  /\ last' = Step("ConnectFailed", connCalls[c].dev)
  /\ UNCHANGED <<sensorData, bluetoothState, scanning, devices, selectedDevice,
                 envVars, scanCalls, discCall, readCall>>

\* The peripheral goes out of range or closes the link; the code registers
\* no handler for it.
ConnectionLost(id) ==
  /\ id \in open
  /\ open' = open \ {id}
  /\ subs' = {sub \in subs : sub[1] # id}
  /\ connCalls' = Closed({id})
  /\ last' = NoStep
  /\ UNCHANGED <<reactVars, platform, granted, nativeScan, sessAge, sessErr,
                 scanCalls, discCall, readCall>>

\* ------------------------------------------------------------ payload decoder
\* (mutant) the catch block takes a value that does not parse as a reading.
AcceptsRaw(data) ==
  \/ ~data.ok
  \/ /\ data.kind = "object"
     /\ (TruthyNum(Field(data.obj, "temperature")) \/ TruthyNum(Field(data.obj, "humidity")))

\* if (data.temperature || data.humidity); reading a property of null throws.
Accepts(data) ==
  /\ data.ok
  /\ data.kind = "object"
  /\ (TruthyNum(Field(data.obj, "temperature")) \/ TruthyNum(Field(data.obj, "humidity")))

\* (mutant) the value is merged into the snapshot: {...prev, ...data}.
MergedSensorData(prev, data) ==
  [f \in DOMAIN prev \cup DOMAIN data |-> IF f \in DOMAIN data THEN data[f] ELSE prev[f]]

\* setSensorData(data)
NextSensorData(prev, data) == data

\* What the view shows of a snapshot: a field that is not undefined.
Shown(obj) == {f \in {"temperature", "humidity"} : Field(obj, f) # Undefined}

\* The monitor callback: kind is "error" (error set), "novalue" (characteristic
\* or value null) or "value".
Notify(sub, kind, value) ==
  /\ sub \in subs
  /\ IF kind = "value" /\ Len(value) > 0 /\ Accepts(JSONParse(value))
       THEN /\ sensorData' = NextSensorData(sensorData, JSONParse(value).obj)
            /\ statusMsg' = "Receiving sensor data..."
       ELSE UNCHANGED <<sensorData, statusMsg>>
  /\ last' = [op |-> "Notify", dev |-> kind, value |-> value, pre |-> sensorData]
  /\ UNCHANGED <<connected, bluetoothState, scanning, devices, selectedDevice,
                 envVars, callVars>>

\* ------------------------------------------------------- disconnect and read
\* Disconnect and Read Data are rendered when connected && selectedDevice.
ControlsShown == connected /\ selectedDevice # Null

\* Press of Disconnect: disconnectDevice up to await cancelConnection().
DisconnectPress ==
  /\ ControlsShown
  /\ discCall.pc = "idle"
  /\ selectedDevice # Null
  /\ discCall' = [pc |-> "cancel", dev |-> selectedDevice]
  /\ last' = NoStep
  /\ UNCHANGED <<reactVars, envVars, scanCalls, connCalls, readCall>>

\* await selectedDevice.cancelConnection() resolves.
DisconnectResolved ==
  /\ discCall.pc = "cancel"
  /\ discCall.dev \in open
  /\ open' = open \ {discCall.dev}
  /\ subs' = {sub \in subs : sub[1] # discCall.dev}
  /\ selectedDevice' = Null
  /\ connected' = FALSE
  /\ sensorData' = EmptyObj
  /\ statusMsg' = "Disconnected from device"
  /\ connCalls' = Closed({discCall.dev})
  /\ discCall' = IdleCall
  /\ last' = NoStep
  /\ UNCHANGED <<bluetoothState, scanning, devices, platform, granted, nativeScan,
                 sessAge, sessErr, scanCalls, readCall>>

\* await selectedDevice.cancelConnection() rejects: console.error only.
DisconnectFailed ==
  /\ discCall.pc = "cancel"
  /\ discCall' = IdleCall
  /\ last' = Step("DisconnectFailed", discCall.dev)
  /\ UNCHANGED <<reactVars, envVars, scanCalls, connCalls, readCall>>

\* Press of Read Data: readSensorData up to await selectedDevice.services().
ReadPress ==
  /\ ControlsShown
  /\ readCall.pc = "idle"
  /\ selectedDevice # Null
  /\ statusMsg' = "Reading sensor data..."
  /\ readCall' = [pc |-> "services", dev |-> selectedDevice]
  /\ last' = NoStep
  /\ UNCHANGED <<sensorData, connected, bluetoothState, scanning, devices,
                 selectedDevice, envVars, scanCalls, connCalls, discCall>>

ReadResolved ==
  /\ readCall.pc = "services"
  /\ readCall.dev \in open
  /\ statusMsg' = "Data read successfully"
  /\ readCall' = IdleCall
  /\ last' = NoStep
  /\ UNCHANGED <<sensorData, connected, bluetoothState, scanning, devices,
                 selectedDevice, envVars, scanCalls, connCalls, discCall>>

ReadFailed ==
  /\ readCall.pc = "services"
  /\ statusMsg' = "Failed to read data"
  /\ readCall' = IdleCall
  /\ last' = Step("ReadFailed", readCall.dev)
  /\ UNCHANGED <<sensorData, connected, bluetoothState, scanning, devices,
                 selectedDevice, envVars, scanCalls, connCalls, discCall>>

\* ------------------------------------------------------------ specifications
BtNext(states) == \E s \in states : BtStateChange(s)

ScanNext(slots, ids) ==
  \/ \E c \in slots, st \in BOOLEAN : ScanPress(c, st)
  \/ \E c \in slots, ct \in BOOLEAN, st \in BOOLEAN : CheckResolved(c, ct, st)
  \/ \E c \in slots, rt \in BOOLEAN, st \in BOOLEAN :
       \E r \in RequestOutcomes(platform, granted) : RequestResolved(c, r, rt, st)
  \/ \E id \in ids : ScanResult(id)
  \/ ScanError
  \/ \E c \in slots : ScanTimeout(c)
  \/ Tick

ConnNext(slots, values) ==
  \/ \E c \in slots, id \in Peripherals : ConnectPress(c, id)
  \/ \E c \in slots : ConnectResolved(c)
  \/ \E c \in slots : DiscoverResolved(c)
  \/ \E c \in slots : ServicesResolved(c)
  \/ \E c \in slots : CharsResolved(c)
  \/ \E c \in slots : ConnectFailed(c)
  \/ \E id \in Peripherals : ConnectionLost(id)
  \/ \E sub \in subs, kind \in {"error", "novalue"} : Notify(sub, kind, << >>)
  \/ \E sub \in subs, value \in values : Notify(sub, "value", value)
  \/ DisconnectPress
  \/ DisconnectResolved
  \/ DisconnectFailed
  \/ ReadPress
  \/ ReadResolved
  \/ ReadFailed

\* The adapter states, scan results and notification values of the
\* specifications that are not about them: powered on, powered off and one
\* state the observer has no branch for; a named and an unnamed peripheral;
\* a value the decoder accepts and one it ignores.
FewBleStates == {"PoweredOn", "PoweredOff", "Resetting"}
FewIds == {"AA:01", "CC:03"}
FewValues == {Object2("temperature", 21, "humidity", 40), <<Raw("21.5C 40%")>>}

\* The whole component.
Next ==
  \/ BtNext(FewBleStates)
  \/ ScanNext(ScanSlots, FewIds)
  \/ ConnNext(ConnSlots, FewValues)

Spec == Init /\ [][Next]_vars

\* The observer, the permission gate and the scanner alone, with every
\* adapter state and every peripheral: no Connect is pressed.
ScanOnlyNext ==
  \/ BtNext(BleStates)
  \/ ScanNext(ScanSlots, Peripherals \cup {Null})

ScanSpec == Init /\ [][ScanOnlyNext]_vars

\* The same with one more pending invocation of startBLEScan.
RescanNext ==
  \/ BtNext(FewBleStates)
  \/ ScanNext(RescanSlots, Peripherals \cup {Null})

RescanSpec == Init /\ [][RescanNext]_vars

\* The connector, the decoder and the controls alone, from the state after a
\* first scan on Android 12 that listed both named peripherals and ran its
\* 10 seconds: no further scan is started.
ConnInit ==
  /\ sensorData = EmptyObj
  /\ connected = FALSE
  /\ statusMsg = ScanCompletedMessage(0)
  /\ bluetoothState = "PoweredOn"
  /\ scanning = FALSE
  /\ devices = << [id |-> "AA:01", name |-> NameOf("AA:01"), cur |-> TRUE],
                  [id |-> "BB:02", name |-> NameOf("BB:02"), cur |-> TRUE] >>
  /\ selectedDevice = Null
  /\ platform = [os |-> "android", version |-> Android12]
  /\ granted = AllPermissions
  /\ nativeScan = FALSE
  /\ sessAge = 0
  /\ sessErr = FALSE
  /\ open = {}
  /\ subs = {}
  /\ scanCalls = [c \in RescanSlots |-> IdleScanCall]
  /\ connCalls = [c \in RaceSlots |-> IdleConnCall]
  /\ discCall = IdleCall
  /\ readCall = IdleCall
  /\ last = NoStep

ConnOnlyNext ==
  \/ BtNext(FewBleStates)
  \/ ConnNext(ConnSlots, FewValues)

ConnSpec == ConnInit /\ [][ConnOnlyNext]_vars

\* The same with one more suspended invocation of connectToDevice.
RaceNext ==
  \/ BtNext(FewBleStates)
  \/ ConnNext(RaceSlots, FewValues)

RaceSpec == ConnInit /\ [][RaceNext]_vars

\* The payload decoder alone, with every notification value: from the state
\* in which connectToDevice has finished for the first peripheral and both of
\* its notifiable characteristics are monitored.
DecoderInit ==
  /\ sensorData = EmptyObj
  /\ connected = TRUE
  /\ statusMsg = "Connected and monitoring " \o NameOf("AA:01")
  /\ bluetoothState = "PoweredOn"
  /\ scanning = FALSE
  /\ devices = << [id |-> "AA:01", name |-> NameOf("AA:01"), cur |-> TRUE],
                  [id |-> "BB:02", name |-> NameOf("BB:02"), cur |-> TRUE] >>
  /\ selectedDevice = "AA:01"
  /\ platform = [os |-> "android", version |-> Android12]
  /\ granted = AllPermissions
  /\ nativeScan = FALSE
  /\ sessAge = 0
  /\ sessErr = FALSE
  /\ open = {"AA:01"}
  /\ subs = {<<"AA:01", 1, 1>>, <<"AA:01", 2, 1>>}
  /\ scanCalls = [c \in RescanSlots |-> IdleScanCall]
  /\ connCalls = [c \in RaceSlots |-> IdleConnCall]
  /\ discCall = IdleCall
  /\ readCall = IdleCall
  /\ last = NoStep

DecoderNext ==
  \/ \E sub \in subs, kind \in {"error", "novalue"} : Notify(sub, kind, << >>)
  \/ \E sub \in subs, value \in NotifyValues : Notify(sub, "value", value)
  \/ DisconnectPress
  \/ DisconnectResolved
  \/ DisconnectFailed
  \/ \E c \in ConnSlots, id \in Peripherals : ConnectPress(c, id)
  \/ \E c \in ConnSlots : ConnectResolved(c)
  \/ \E c \in ConnSlots : ConnectFailed(c)

DecoderSpec == DecoderInit /\ [][DecoderNext]_vars

\* The observer, the permission gate and the scanner with one more pending
\* invocation and few inputs, where time passes and a timer that is due
\* fires: setTimeout callbacks run once their delay is over for as long as the
\* component is mounted.
LiveNext ==
  \/ BtNext(FewBleStates)
  \/ ScanNext(RescanSlots, FewIds)

ScanFairness ==
  /\ WF_vars(Tick)
  /\ \A c \in RescanSlots : WF_vars(ScanTimeout(c))

LiveSpec == Init /\ [][LiveNext]_vars /\ ScanFairness

\* =================================================================== claims

\* C1: in every reachable state at most one peripheral has a BLE connection
\* that connectToDevice opened and nothing has closed.
C1_AtMostOneConnection == Cardinality(open) <= 1

\* An invocation of startBLEScan starts a scan session in this step.
ScanStarted ==
  \E c \in DOMAIN scanCalls : scanCalls[c].pc # "timer" /\ scanCalls'[c].pc = "timer"

\* The running scan session is stopped in this step.
SessionEnds == nativeScan /\ ~nativeScan'

\* C2: a scan session that has reported no scan error ends only when its own
\* 10 seconds have passed, and scanning is false afterwards; nothing ends it
\* earlier, a timer of an earlier session included.
C2_ScanLastsItsWindow ==
  [][(SessionEnds /\ ~sessErr) => (sessAge = ScanWindowMs /\ ~scanning')]_vars

\* The value has a temperature or a humidity member, whatever its number.
HasReading(data) ==
  /\ data.ok
  /\ data.kind = "object"
  /\ (Field(data.obj, "temperature") # Undefined \/ Field(data.obj, "humidity") # Undefined)

\* C3: after a notification whose value parses as a JSON object with a
\* temperature or a humidity member (0 included), the displayed readings are
\* those of that value.
C3_ReadingIsDisplayed ==
  (last.op = "Notify" /\ last.dev = "value" /\ HasReading(JSONParse(last.value)))
    => /\ sensorData = JSONParse(last.value).obj
       /\ statusMsg = "Receiving sensor data..."

\* C4: whenever connected goes from true to false, sensorData is the empty
\* object afterwards.
C4_ClearedOnDisconnect ==
  [][(connected /\ ~connected') => sensorData' = EmptyObj]_vars

\* Every string the code sets as the status message.
StatusStrings ==
  { "Bluetooth not ready", "Bluetooth is ready - Scan for devices",
    "Bluetooth is turned off", "Bluetooth permission denied",
    "Bluetooth not supported on this device", "Bluetooth permissions required",
    "Scanning for BLE devices...", "Scan error: " \o ScanErrorMessage,
    "Scan failed: " \o ScanFailedMessage,
    "Connection failed: " \o ConnectErrorMessage, "Receiving sensor data...",
    "Disconnected from device", "Reading sensor data...", "Data read successfully",
    "Failed to read data" }
  \cup {ScanCompletedMessage(n) : n \in 0..Cardinality(Peripherals)}
  \cup {"Connecting to " \o NameOf(id) \o "..." : id \in Peripherals}
  \cup {"Connected to " \o NameOf(id) \o " - Discovering services..." : id \in Peripherals}
  \cup {"Connected and monitoring " \o NameOf(id) : id \in Peripherals}

\* The operations whose failure the last step can be.
FailureOps == {"ScanError", "ScanFailed", "ConnectFailed", "DisconnectFailed", "ReadFailed"}

\* msg is a status message about the failure of op.  No string of the code
\* is about a failed disconnect.
AboutFailure(op, msg) ==
  CASE op = "ScanError" -> msg = "Scan error: " \o ScanErrorMessage
    [] op = "ScanFailed" -> msg = "Scan failed: " \o ScanFailedMessage
    [] op = "ConnectFailed" -> msg = "Connection failed: " \o ConnectErrorMessage
    [] op = "ReadFailed" -> msg = "Failed to read data"
    [] op = "DisconnectFailed" -> msg \notin StatusStrings
    [] OTHER -> TRUE

\* The invocations that are suspended at an await.
Awaiting(calls) == {c \in DOMAIN calls : calls[c].pc \notin {"idle", "timer"}}
AwaitingOne(call) == IF call.pc = "idle" THEN 0 ELSE 1

\* This step calls none of the failing operations again: no scan session is
\* started, connect() is awaited by no invocation that did not await it, and
\* no invocation is added.
NoRetry ==
  /\ ~ScanStarted
  /\ \A c \in DOMAIN connCalls : connCalls'[c].pc = "connect" => connCalls[c].pc = "connect"
  /\ Awaiting(scanCalls') \subseteq Awaiting(scanCalls)
  /\ Awaiting(connCalls') \subseteq Awaiting(connCalls)
  /\ AwaitingOne(discCall') <= AwaitingOne(discCall)
  /\ AwaitingOne(readCall') <= AwaitingOne(readCall)

\* The failing invocation is over after this step.
AttemptEnded(op) ==
  CASE op = "ScanError" -> ~scanning'
    [] op = "ScanFailed" ->
         /\ ~scanning'
         /\ \A c \in DOMAIN scanCalls :
              scanCalls'[c].pc # "idle" => scanCalls'[c] = scanCalls[c]
    [] op = "ConnectFailed" ->
         Cardinality(Awaiting(connCalls')) = Cardinality(Awaiting(connCalls)) - 1
    [] op = "DisconnectFailed" -> discCall.pc # "idle" /\ discCall'.pc = "idle"
    [] op = "ReadFailed" -> readCall.pc # "idle" /\ readCall'.pc = "idle"
    [] OTHER -> TRUE

\* C5 (as stated): every failure (scan error, connect failure, disconnect
\* failure, manual read failure) ends the attempt without a retry and sets
\* the status message to a message about that failure.
C5_EveryFailureSetsStatus ==
  [][last'.op \in FailureOps =>
       (AttemptEnded(last'.op) /\ NoRetry /\ AboutFailure(last'.op, statusMsg'))]_vars

\* C5 (amended): every failure ends the attempt without a retry; a scan
\* error, a thrown scan failure, a connect failure and a read failure set the
\* status message to their message, and a disconnect failure is only logged:
\* it leaves the status message as it was.
C5_FailuresEndAttempt ==
  [][last'.op \in FailureOps =>
       /\ AttemptEnded(last'.op)
       /\ NoRetry
       /\ IF last'.op = "DisconnectFailed"
            THEN statusMsg' = statusMsg
            ELSE AboutFailure(last'.op, statusMsg')]_vars

\* A disconnect has failed: the device is still selected, and the status
\* message is the one of the connect that went before.
C5_DisconnectFailedSilently ==
  /\ last.op = "DisconnectFailed"
  /\ discCall.pc = "idle"
  /\ connected
  /\ selectedDevice = last.dev
  /\ statusMsg = "Connected and monitoring " \o NameOf(last.dev)

\* The string that belongs to an adapter state; "Bluetooth not ready" is the
\* one the component shows with the state Unknown when it is mounted.
StateString(state) ==
  CASE state = "PoweredOn" -> "Bluetooth is ready - Scan for devices"
    [] state = "PoweredOff" -> "Bluetooth is turned off"
    [] state = "Unauthorized" -> "Bluetooth permission denied"
    [] state = "Unsupported" -> "Bluetooth not supported on this device"
    [] OTHER -> "Bluetooth not ready"

\* C6 (as stated): after the observer's callback for any adapter state,
\* statusMsg is the string of that state, whatever it was before.
C6_EveryStateSetsStatus ==
  [][bluetoothState' # bluetoothState => statusMsg' = StateString(bluetoothState')]_vars

\* C6 (amended): after the observer's callback bluetoothState is the state
\* delivered; for PoweredOn, PoweredOff, Unauthorized and Unsupported statusMsg
\* is the string of that state, and for Unknown and Resetting statusMsg is
\* what it was before.
C6_ObserverSetsStatus ==
  [][bluetoothState' # bluetoothState =>
       /\ bluetoothState' \in BleStates
       /\ statusMsg' = IF bluetoothState' \in {"Unknown", "Resetting"}
                         THEN statusMsg
                         ELSE StateString(bluetoothState')]_vars

\* The adapter is resetting and the status still says it is ready.
C6_ResettingKeepsStatus ==
  bluetoothState = "Resetting" /\ statusMsg = "Bluetooth is ready - Scan for devices"

\* The permissions the claim names for the platform.
ClaimedPermissions(p) ==
  IF p.os # "android" THEN {}
  ELSE {FINE, COARSE} \cup (IF p.version >= Android12 THEN {BT_SCAN, BT_CONNECT} ELSE {})

\* startDeviceScan is called in this step.
ScanCalled == ScanStarted \/ last'.op = "ScanFailed"

\* An invocation's await of requestPermissions() resolves in this step.
RequestEnds ==
  \E c \in DOMAIN scanCalls : scanCalls[c].pc = "request" /\ scanCalls'[c].pc # "request"

\* C7: startDeviceScan is called, and scanning is true, only with every
\* required permission granted; when the request leaves one of them denied,
\* startDeviceScan is not called, scanning stays false, the device list is
\* unchanged and the status message is 'Bluetooth permissions required'.
C7_ScanNeedsPermissions ==
  [][/\ ScanCalled => ClaimedPermissions(platform) \subseteq granted'
     /\ scanning' => ClaimedPermissions(platform) \subseteq granted'
     /\ (RequestEnds /\ ~(ClaimedPermissions(platform) \subseteq granted')) =>
          /\ ~ScanCalled
          /\ ~scanning /\ ~scanning'
          /\ devices' = devices
          /\ statusMsg' = "Bluetooth permissions required"]_vars

\* On Android 12 the request has ended with exactly one permission denied.
C7_OneDenied ==
  /\ statusMsg = "Bluetooth permissions required"
  /\ platform = [os |-> "android", version |-> Android12]
  /\ Cardinality(granted) = 3
  /\ ~scanning
  /\ ~nativeScan
  /\ \A c \in DOMAIN scanCalls : scanCalls[c].pc = "idle"

\* C8: the discovered-device list holds no two records with the same
\* identifier.
C8_UniqueIdentifiers ==
  \A i, j \in DOMAIN devices : devices[i].id = devices[j].id => i = j

\* The scan callback has just reported again the device that is first in a
\* list of two.
C8_RepeatedReport ==
  /\ last.op = "ScanResult"
  /\ Len(devices) = 2
  /\ last.dev = devices[1].id

\* C9: a step that starts a scan leaves the list empty, and every record of
\* the list was reported by the scan session started last.
C9_ListOfLatestScan ==
  [][/\ ScanCalled => devices' = << >>
     /\ \A i \in DOMAIN devices' : devices'[i].cur]_vars

\* A scan that was started with two records in the list is running, and the
\* list holds the one record it has reported.
C9_SecondScanListsAnew ==
  /\ scanning
  /\ nativeScan
  /\ Len(devices) = 1
  /\ \E c \in DOMAIN scanCalls : scanCalls[c].pc = "timer" /\ scanCalls[c].len = 2

\* C10: after a notification that the decoder accepts, sensorData is exactly
\* the parsed value: it has the members of the value and no other.
C10_ReplacedWholesale ==
  (last.op = "Notify" /\ last.dev = "value" /\ Len(last.value) > 0
     /\ Accepts(JSONParse(last.value)))
    => /\ sensorData = JSONParse(last.value).obj
       /\ Shown(sensorData) = Shown(JSONParse(last.value).obj)

\* A value with humidity alone has replaced a snapshot that had a temperature.
C10_TemperatureDropped ==
  /\ last.op = "Notify"
  /\ last.value = Object1("humidity", 40)
  /\ Field(last.pre, "temperature") # Undefined
  /\ Field(sensorData, "temperature") = Undefined
  /\ Field(sensorData, "humidity") = 40

\* The notification of this step carries an error, has no value (null or the
\* empty string), or has a value on which JSON.parse throws.
NotifyIgnorable ==
  /\ last'.op = "Notify"
  /\ \/ last'.dev \in {"error", "novalue"}
     \/ Len(last'.value) = 0
     \/ ~JSONParse(last'.value).ok

\* C11: a notification that carries an error, has no value, or has a payload
\* that does not parse as JSON leaves sensorData, statusMsg, connected and
\* selectedDevice unchanged.
C11_IgnoredNotification ==
  [][NotifyIgnorable =>
       UNCHANGED <<sensorData, statusMsg, connected, selectedDevice>>]_vars

\* A payload that is no JSON has arrived after a reading: the reading and its
\* status message are still there.
C11_RawAfterReading ==
  /\ last.op = "Notify"
  /\ last.dev = "value"
  /\ last.value = <<Raw("21.5C 40%")>>
  /\ last.pre = sensorData
  /\ Field(sensorData, "temperature") = 21
  /\ statusMsg = "Receiving sensor data..."
  /\ connected
  /\ selectedDevice = "AA:01"

\* The notifiable characteristics over all services of a peripheral.
NotifiableOf(id) ==
  UNION { {<<id, svc, k>> : k \in {j \in DOMAIN GattOf(id)[svc] : GattOf(id)[svc][j]}} :
          svc \in DOMAIN GattOf(id) }

\* Invocation c of connectToDevice reaches its last statement in this step.
ConnectCompletes(c) ==
  /\ connCalls[c].pc # "idle"
  /\ connCalls'[c].pc = "idle"
  /\ statusMsg' = "Connected and monitoring " \o NameOf(connCalls[c].dev)

\* C12: when connectToDevice completes without failure, the characteristics
\* of its device with a notification subscription are exactly the notifiable
\* characteristics over all services of the device.
C12_SubscribedAreNotifiable ==
  [][\A c \in DOMAIN connCalls :
       ConnectCompletes(c) =>
         {sub \in subs' : sub[1] = connCalls[c].dev} = NotifiableOf(connCalls[c].dev)]_vars

\* connectToDevice has completed for the peripheral with two services: the
\* notifiable characteristic of each is monitored, and the characteristic
\* that cannot notify is not.
C12_BothServicesMonitored ==
  /\ statusMsg = "Connected and monitoring " \o NameOf("AA:01")
  /\ \A c \in DOMAIN connCalls : connCalls[c].pc = "idle"
  /\ last = NoStep
  /\ discCall.pc = "idle"
  /\ readCall.pc = "idle"
  /\ subs = {<<"AA:01", 1, 1>>, <<"AA:01", 2, 1>>}
  /\ ~GattOf("AA:01")[1][2]

\* The scan callback of this step reported no device, or a device whose name
\* is null or the empty string.
UnnamedReported ==
  /\ last'.op = "ScanResult"
  /\ (last'.dev = Null \/ NameOf(last'.dev) \in {Null, ""})

\* C13: every record of the discovered-device list has a name that is
\* neither null nor empty, and a scan result without such a name leaves the
\* list as it was.
C13_RecordsAreNamed ==
  [][/\ \A i \in DOMAIN devices' : devices'[i].name \notin {Null, ""}
     /\ UnnamedReported => devices' = devices]_vars

\* The scan has just reported the peripheral with the empty name, after the
\* two named ones: the list holds the two.
C13_EmptyNameSkipped ==
  /\ last.op = "ScanResult"
  /\ NameOf(last.dev) = ""
  /\ scanning
  /\ Len(devices) = 2
  /\ \A i \in DOMAIN devices : devices[i].id # last.dev

\* C14: in every reachable state connected is true if and only if
\* selectedDevice is not null.
C14_FlagAndHandleAgree == connected <=> selectedDevice # Null

\* C15: startDeviceScan is called only while the adapter state is PoweredOn,
\* also when the state changes while startBLEScan awaits the permission
\* check or request.
C15_ScanOnlyWhenPoweredOn ==
  [][ScanCalled => bluetoothState = "PoweredOn"]_vars

\* The 10-second timer of an invocation of startBLEScan fires in this step.
WindowEnds ==
  \E c \in DOMAIN scanCalls : scanCalls[c].pc = "timer" /\ scanCalls'[c].pc = "idle"

\* C16: when the 10-second window ends, the status message is
\* 'Scan completed. Found N devices' with N the number of records in the
\* discovered-device list at that moment.
C16_ReportsListLength ==
  [][WindowEnds => statusMsg' = ScanCompletedMessage(Len(devices'))]_vars

\* C17: whenever scanning is true it is eventually false, when time passes
\* and due timers fire.
C17_ScanningEnds == scanning ~> ~scanning

\* A scan has run its 10 seconds: its timer has fired and scanning is false.
C17_EndedByTimer ==
  /\ ~scanning
  /\ ~nativeScan
  /\ statusMsg = ScanCompletedMessage(0)
  /\ Len(devices) = 0
  /\ \A c \in DOMAIN scanCalls : scanCalls[c].pc = "idle"
====
